---- MODULE Spec2Model ----
(***************************************************************************)
(* A model of data_processing.py: the loader, the cleaner, the timestamp   *)
(* synthesizer, the per-source pipeline, the merger and the query          *)
(* functions of the vessel dashboard.                                      *)
(*                                                                         *)
(* A DataFrame is a record                                                 *)
(*     [cols : sequence of column names,                                   *)
(*      dtype: column name -> dtype name,                                  *)
(*      rows : sequence of rows, a row being column name -> cell].         *)
(* A cell is a record [k, n, d, s]: k is "null" (NaN / None / NaT), "num"  *)
(* (the rational n/d), "str" (the string s) or "ts" (the point in time n,  *)
(* in seconds since the start of day 0).                                   *)
(***************************************************************************)
EXTENDS Integers, Sequences, FiniteSets, TLC

VARIABLES
    filename,   \* load_excel_file's filename argument
    content,    \* load_excel_file's file_content: whether it decodes, and to what
    df,         \* the DataFrame the next call is applied to
    prev,       \* the DataFrame the last call was applied to
    dfs,        \* the list of DataFrames handed to merge_dataframes
    args,       \* the arguments of the last call
    result,     \* what the last call returned
    raised,     \* whether the last call raised
    op          \* the name of the last call

vars == <<filename, content, df, prev, dfs, args, result, raised, op>>

-----------------------------------------------------------------------------
(* Bounds of the model. *)

MaxRows == 2
MaxParts == 4
MaxSources == 2
MaxTotalRows == 3
MaxQueryRows == 2
MaxFilterKeys == 2

-----------------------------------------------------------------------------
(* Cells. *)

Null == [k |-> "null", n |-> 0, d |-> 1, s |-> ""]
Num(i) == [k |-> "num", n |-> i, d |-> 1, s |-> ""]
Str(x) == [k |-> "str", n |-> 0, d |-> 1, s |-> x]
Ts(t) == [k |-> "ts", n |-> t, d |-> 1, s |-> ""]

IsNull(c) == c.k = "null"

SecondsPerDay == 24 * 60 * 60

\* A calendar date as pandas reads it from a sheet: midnight of that day.
Date(day) == Ts(day * SecondsPerDay)

DayOf(t) == t \div SecondsPerDay

RECURSIVE Gcd(_, _)
Gcd(a, b) == IF b = 0 THEN a ELSE Gcd(b, a % b)

Abs(i) == IF i < 0 THEN -i ELSE i

\* The float n/d, in lowest terms.
Frac(n, d) ==
    LET g == Gcd(Abs(n), d)
    IN  [k |-> "num", n |-> n \div g, d |-> d \div g, s |-> ""]

-----------------------------------------------------------------------------
(* DataFrames. *)

EmptyFrame == [cols |-> <<>>, dtype |-> <<>>, rows |-> <<>>]

ColSet(f) == {f.cols[i] : i \in DOMAIN f.cols}

HasCol(f, c) == c \in ColSet(f)

NRows(f) == Len(f.rows)

IsNumericDtype(t) == t \in {"float64", "int64"}

\* df[c] = values: an existing column is replaced in place, a new one is
\* appended after the others.
SetColumn(f, c, t, values) ==
    [cols  |-> IF HasCol(f, c) THEN f.cols ELSE Append(f.cols, c),
     dtype |-> [x \in ColSet(f) \cup {c} |-> IF x = c THEN t ELSE f.dtype[x]],
     rows  |-> [i \in DOMAIN f.rows |->
                   [x \in ColSet(f) \cup {c} |->
                       IF x = c THEN values[i] ELSE f.rows[i][x]]]]

\* df[[...]]: the columns kept, in the order given.
Project(f, keep) ==
    [cols  |-> keep,
     dtype |-> [x \in {keep[i] : i \in DOMAIN keep} |-> f.dtype[x]],
     rows  |-> [i \in DOMAIN f.rows |->
                   [x \in {keep[j] : j \in DOMAIN keep} |-> f.rows[i][x]]]]

-----------------------------------------------------------------------------
(* clean_data *)

\* A cleaner that takes a column of blanks (0 or '') for an empty one, and a
\* column of nulls for a full one.
AllBlank(f, c) ==
    \A i \in DOMAIN f.rows : f.rows[i][c] \in {[k |-> "num", n |-> 0, d |-> 1, s |-> ""],
                                               [k |-> "str", n |-> 0, d |-> 1, s |-> ""]}

\* dropna(axis=1, how='all') keeps a column iff some row holds a value in it.
AllNull(f, c) == \A i \in DOMAIN f.rows : IsNull(f.rows[i][c])

DropAllNullColumns(f) ==
    Project(f, SelectSeq(f.cols, LAMBDA c : ~AllNull(f, c)))

\* A cleaner that fills every column with the empty string.
FillValueAlwaysText(t) == Str("")

\* The value fillna is given for a column of dtype t.
FillValue(t) == IF IsNumericDtype(t) THEN Num(0) ELSE Str("")

\* Series.fillna(v): a datetime64 column that takes a string becomes object.
FilledDtype(f, c) ==
    IF ~IsNumericDtype(f.dtype[c]) /\ (\E i \in DOMAIN f.rows : IsNull(f.rows[i][c]))
    THEN "object"
    ELSE f.dtype[c]

FillColumns(f) ==
    [cols  |-> f.cols,
     dtype |-> [c \in ColSet(f) |-> FilledDtype(f, c)],
     rows  |-> [i \in DOMAIN f.rows |->
                   [c \in ColSet(f) |->
                       IF IsNull(f.rows[i][c]) THEN FillValue(f.dtype[c])
                       ELSE f.rows[i][c]]]]

clean_data(f) == FillColumns(DropAllNullColumns(f))

-----------------------------------------------------------------------------
(* create_timestamp *)

Digit(c) ==
    CASE c = "0" -> 0 [] c = "1" -> 1 [] c = "2" -> 2 [] c = "3" -> 3
      [] c = "4" -> 4 [] c = "5" -> 5 [] c = "6" -> 6 [] c = "7" -> 7
      [] c = "8" -> 8 [] c = "9" -> 9 [] OTHER -> -1

DigitStr(i) ==
    CASE i = 0 -> "0" [] i = 1 -> "1" [] i = 2 -> "2" [] i = 3 -> "3"
      [] i = 4 -> "4" [] i = 5 -> "5" [] i = 6 -> "6" [] i = 7 -> "7"
      [] i = 8 -> "8" [] i = 9 -> "9"

Pad2(i) == DigitStr((i \div 10) % 10) \o DigitStr(i % 10)

RECURSIVE NatStr(_)
NatStr(i) == IF i < 10 THEN DigitStr(i) ELSE NatStr(i \div 10) \o DigitStr(i % 10)

CharAt(s, i) == SubSeq(s, i, i)

\* Two characters read as a number, -1 unless both are digits.
TwoDigits(s, i) ==
    IF Digit(CharAt(s, i)) < 0 \/ Digit(CharAt(s, i + 1)) < 0 THEN -1
    ELSE 10 * Digit(CharAt(s, i)) + Digit(CharAt(s, i + 1))

\* strftime('%Y-%m-%d'). The model's days are the days of January 2024:
\* day 1 is 2024-01-01.
DayStr(day) == "2024-01-" \o Pad2(day)

TimeStr(secs) ==
    Pad2(secs \div 3600) \o ":" \o Pad2((secs \div 60) % 60) \o ":" \o Pad2(secs % 60)

\* Series.astype(str), cell by cell: a string stays, NaN reads "nan", a
\* whole number and a point in time are printed.
AsStr(c) ==
    CASE c.k = "str" -> c
      [] c.k = "null" -> Str("nan")
      [] c.k = "num" -> Str((IF c.n < 0 THEN "-" ELSE "") \o NatStr(Abs(c.n)))
      [] c.k = "ts" ->
            Str(DayStr(DayOf(c.n)) \o " " \o TimeStr(c.n % SecondsPerDay))

\* Series.dt.strftime('%Y-%m-%d'): NaT gives NaN.
Strftime(c) == IF IsNull(c) THEN Null ELSE Str(DayStr(DayOf(c.n)))

\* str + str, cell by cell: NaN on either side gives NaN.
Concat(a, b) == IF IsNull(a) \/ IsNull(b) THEN Null ELSE Str(a.s \o b.s)

\* The seconds of "HH:MM:SS" or "HH:MM", -1 when the text is neither.
ParseTime(t) ==
    LET h == TwoDigits(t, 1)
        m == TwoDigits(t, 4)
        sec == IF Len(t) = 8 THEN TwoDigits(t, 7) ELSE 0
    IN  IF /\ Len(t) \in {5, 8}
           /\ CharAt(t, 3) = ":"
           /\ (Len(t) = 8 => CharAt(t, 6) = ":")
           /\ h \in 0..23 /\ m \in 0..59 /\ sec \in 0..59
        THEN 3600 * h + 60 * m + sec
        ELSE -1

\* pd.to_datetime(text, errors='coerce') of one "YYYY-MM-DD <time>" text:
\* NaT when it does not parse.  A date followed by a space and nothing is
\* midnight for a parser that takes each text alone and NaT for one that
\* holds every text to the format of the first; lenient says which.
ParseDateTime(c, lenient) ==
    IF IsNull(c) THEN Null
    ELSE LET s == c.s
             day == IF Len(s) >= 10 /\ SubSeq(s, 1, 8) = "2024-01-"
                    THEN TwoDigits(s, 9) ELSE -1
             rest == SubSeq(s, 11, Len(s))
         IN  IF day \notin 1..31 THEN Null
             ELSE IF rest = "" \/ rest = " "
                  THEN (IF lenient THEN Date(day) ELSE Null)
             ELSE IF CharAt(rest, 1) = " " /\ ParseTime(SubSeq(rest, 2, Len(rest))) >= 0
                  THEN Ts(day * SecondsPerDay + ParseTime(SubSeq(rest, 2, Len(rest))))
             ELSE Null

\* The accessor Series.dt exists for datetime columns only; on any other
\* column reading it raises AttributeError.
HasDtAccessor(f, c) == f.dtype[c] = "datetime64"

\* What a call leaves behind: whether it raised, and the DataFrame.
Outcome(r, f) == [raised |-> r, df |-> f]

create_timestamp(f, lenient) ==
    IF HasCol(f, "DATE") /\ HasCol(f, "TIME")
    THEN LET g == SetColumn(f, "TIME", "object",
                            [i \in DOMAIN f.rows |-> AsStr(f.rows[i]["TIME"])])
         IN  IF ~HasDtAccessor(g, "DATE")
             THEN Outcome(TRUE, g)
             ELSE Outcome(FALSE,
                    SetColumn(g, "TIMESTAMP", "datetime64",
                        [i \in DOMAIN g.rows |->
                            ParseDateTime(
                                Concat(Concat(Strftime(g.rows[i]["DATE"]), Str(" ")),
                                       g.rows[i]["TIME"]),
                                lenient)]))
    ELSE Outcome(FALSE, f)

-----------------------------------------------------------------------------
(* process_data *)

\* sort_values('TIMESTAMP'): ascending, NaT last.  The default sort kind is
\* not stable, so rows of equal TIMESTAMP may come out in either order.
InOrder(a, b) == IsNull(b) \/ (~IsNull(a) /\ a.n <= b.n)

SortOrders(f, c) ==
    {p \in Permutations(DOMAIN f.rows) :
        \A i, j \in DOMAIN f.rows :
            i < j => InOrder(f.rows[p[i]][c], f.rows[p[j]][c])}

Reorder(f, p) ==
    [cols |-> f.cols, dtype |-> f.dtype, rows |-> [i \in DOMAIN f.rows |-> f.rows[p[i]]]]

sort_values(f, c) == {Reorder(f, p) : p \in SortOrders(f, c)}

\* Every outcome process_data may have on f.
process_data(f, lenient) ==
    LET o == create_timestamp(clean_data(f), lenient)
    IN  IF o.raised THEN {o}
        ELSE IF HasCol(o.df, "TIMESTAMP")
             THEN {Outcome(FALSE, g) : g \in sort_values(o.df, "TIMESTAMP")}
             ELSE {o}

-----------------------------------------------------------------------------
(* The DataFrames the model feeds the functions. *)

\* All sequences of n rows over the columns cs, a cell of column c drawn from
\* Values[c].
RowsOver(cs, Values, n) ==
    [1..n -> {r \in [cs -> UNION {Values[c] : c \in cs}] : \A c \in cs : r[c] \in Values[c]}]

\* The sub-sequence of universe whose names are in cs.
Pick(universe, cs) == SelectSeq(universe, LAMBDA c : c \in cs)

FramesOver(universe, Dtypes, Values, maxRows) ==
    {[cols |-> Pick(universe, cs), dtype |-> [c \in cs |-> Dtypes[c]], rows |-> rs] :
        <<cs, rs>> \in UNION {{<<cs0, rs0>> : rs0 \in UNION {RowsOver(cs0, Values, n) : n \in 0..maxRows}} :
                                cs0 \in SUBSET {universe[i] : i \in DOMAIN universe}}}

\* A measurement export as read from a sheet.
SheetColumns == <<"DATE", "TIME", "RPM">>

SheetDtypes == [c \in {"DATE", "TIME", "RPM"} |->
    CASE c = "DATE" -> "datetime64" [] c = "TIME" -> "object" [] c = "RPM" -> "float64"]

SheetValues == [c \in {"DATE", "TIME", "RPM"} |->
    CASE c = "DATE" -> {Null, Date(1), Date(2)}
      [] c = "TIME" -> {Null, Str("08:00:00")}
      [] c = "RPM" -> {Null, Num(1)}]

Sheets == FramesOver(SheetColumns, SheetDtypes, SheetValues, MaxRows)

-----------------------------------------------------------------------------
(* The cleaner and the pipeline, applied to a sheet. *)

NoCall == [name |-> "none"]

NoContent == [decodes |-> FALSE, sheet |-> EmptyFrame]

InitPipeline ==
    /\ df \in Sheets
    /\ prev = EmptyFrame
    /\ filename = ""
    /\ content = NoContent
    /\ dfs = <<>>
    /\ args = NoCall
    /\ result = NoCall
    /\ raised = FALSE
    /\ op = "init"

Clean ==
    /\ op' = "clean_data"
    /\ prev' = df
    /\ df' = clean_data(df)
    /\ raised' = FALSE
    /\ args' = NoCall
    /\ UNCHANGED <<filename, content, dfs, result>>

CreateTimestamp ==
    \E lenient \in BOOLEAN :
        LET o == create_timestamp(df, lenient)
        IN  /\ op' = "create_timestamp"
            /\ prev' = df
            /\ df' = o.df
            /\ raised' = o.raised
            /\ args' = [name |-> "create_timestamp", lenient |-> lenient]
            /\ UNCHANGED <<filename, content, dfs, result>>

Process ==
    \E lenient \in BOOLEAN :
        \E o \in process_data(df, lenient) :
            /\ op' = "process_data"
            /\ prev' = df
            /\ df' = o.df
            /\ raised' = o.raised
            /\ args' = [name |-> "process_data", lenient |-> lenient]
            /\ UNCHANGED <<filename, content, dfs, result>>

NextPipeline == Clean \/ CreateTimestamp \/ Process

SpecPipeline == InitPipeline /\ [][NextPipeline]_vars

-----------------------------------------------------------------------------
(* Properties of the cleaner and the pipeline. *)

C9_CleanIdempotent ==
    op = "clean_data" =>
        /\ clean_data(df).cols = df.cols
        /\ clean_data(df).rows = df.rows

\* clean_data has dropped a column and filled a cell, so that its result
\* differs from its argument.
C9_Witness ==
    /\ op = "clean_data"
    /\ ColSet(df) # ColSet(prev)
    /\ \E c \in ColSet(df) : \E i \in DOMAIN df.rows : IsNull(prev.rows[i][c])

\* The DataFrame create_timestamp was given by the last call.
TimestampInput ==
    IF op = "process_data" THEN clean_data(prev) ELSE prev

\* Whether v is the TIMESTAMP the claim gives a row: the date and the time
\* combined when both parse, null otherwise (either, for a time of no text).
IsCombined(row, v) ==
    IF row["DATE"].k # "ts" THEN v = Null
    ELSE IF row["TIME"].s = "" THEN v \in {Null, Date(DayOf(row["DATE"].n))}
    ELSE IF ParseTime(row["TIME"].s) < 0 THEN v = Null
    ELSE v = Ts(DayOf(row["DATE"].n) * SecondsPerDay + ParseTime(row["TIME"].s))

C7_WhenNotRaised ==
    (op \in {"create_timestamp", "process_data"} /\ ~HasCol(prev, "TIMESTAMP") /\ ~raised) =>
        /\ HasCol(df, "TIMESTAMP") <=>
              (HasCol(TimestampInput, "DATE") /\ HasCol(TimestampInput, "TIME"))
        /\ NRows(df) = NRows(prev)
        /\ HasCol(df, "TIMESTAMP") =>
              \A i \in DOMAIN df.rows : IsCombined(df.rows[i], df.rows[i]["TIMESTAMP"])

-----------------------------------------------------------------------------
(* merge_dataframes *)

\* The columns of pd.concat's result: the union of the frames' columns, each
\* at the place of its first appearance.
RECURSIVE UnionCols(_)
UnionCols(fs) ==
    IF fs = <<>> THEN <<>>
    ELSE LET front == UnionCols(SubSeq(fs, 1, Len(fs) - 1))
             last == fs[Len(fs)]
         IN  front \o SelectSeq(last.cols, LAMBDA c : \A i \in DOMAIN front : front[i] # c)

\* A row of a frame as a row over the columns cs: NaN where the frame has no
\* such column.
Widen(f, row, cs) == [c \in cs |-> IF HasCol(f, c) THEN row[c] ELSE Null]

\* The rows of the frames one after the other, each frame's in their order,
\* all of them kept.
RECURSIVE ConcatRowsKeepAll(_, _)
ConcatRowsKeepAll(fs, cs) ==
    IF fs = <<>> THEN <<>>
    ELSE ConcatRowsKeepAll(SubSeq(fs, 1, Len(fs) - 1), cs)
         \o [j \in DOMAIN fs[Len(fs)].rows |-> Widen(fs[Len(fs)], fs[Len(fs)].rows[j], cs)]

\* A merger that removes a row equal to an earlier one (drop_duplicates).
RECURSIVE Dedup(_)
Dedup(rows) ==
    IF rows = <<>> THEN <<>>
    ELSE LET front == Dedup(SubSeq(rows, 1, Len(rows) - 1))
         IN  IF \E i \in DOMAIN front : front[i] = rows[Len(rows)]
             THEN front
             ELSE Append(front, rows[Len(rows)])

ConcatRowsDedup(fs, cs) == Dedup(ConcatRowsKeepAll(fs, cs))

ConcatRows(fs, cs) == ConcatRowsKeepAll(fs, cs)

\* The dtype pd.concat gives column c: the frames' common dtype, float64
\* when they are numeric and differ or when an int64 column takes a NaN,
\* object otherwise.
ConcatDtype(fs, c) ==
    LET having == {i \in DOMAIN fs : HasCol(fs[i], c)}
        ts == {fs[i].dtype[c] : i \in having}
    IN  IF Cardinality(ts) = 1
        THEN (IF ts = {"int64"} /\ having # DOMAIN fs THEN "float64"
              ELSE CHOOSE t \in ts : TRUE)
        ELSE IF \A t \in ts : IsNumericDtype(t) THEN "float64" ELSE "object"

merge_dataframes(fs) ==
    IF fs = <<>> THEN EmptyFrame
    ELSE LET cs == UnionCols(fs)
             names == {cs[i] : i \in DOMAIN cs}
         IN  [cols  |-> cs,
              dtype |-> [c \in names |-> ConcatDtype(fs, c)],
              rows  |-> ConcatRows(fs, names)]

-----------------------------------------------------------------------------
(* Sources gathered one by one, processed or as they are, and merged. *)

SourceColumns == <<"RPM", "MP_NAME">>

SourceDtypes == [c \in {"RPM", "MP_NAME"} |->
    CASE c = "RPM" -> "float64" [] c = "MP_NAME" -> "object"]

SourceValues == [c \in {"RPM", "MP_NAME"} |->
    CASE c = "RPM" -> {Null, Num(1)}
      [] c = "MP_NAME" -> {Null, Str("pump")}]

Sources == FramesOver(SourceColumns, SourceDtypes, SourceValues, MaxRows)

RECURSIVE TotalRows(_)
TotalRows(fs) ==
    IF fs = <<>> THEN 0 ELSE TotalRows(SubSeq(fs, 1, Len(fs) - 1)) + NRows(fs[Len(fs)])

CanTake(f) == Len(dfs) < MaxSources /\ TotalRows(dfs) + NRows(f) <= MaxTotalRows

InitMerge ==
    /\ dfs = <<>>
    /\ df = EmptyFrame
    /\ prev = EmptyFrame
    /\ filename = ""
    /\ content = NoContent
    /\ args = NoCall
    /\ result = NoCall
    /\ raised = FALSE
    /\ op = "init"

\* A source goes through process_data and joins the list.
Upload ==
    \E f \in Sources : \E lenient \in BOOLEAN : \E o \in process_data(f, lenient) :
        /\ CanTake(f)
        /\ ~o.raised
        /\ dfs' = Append(dfs, o.df)
        /\ op' = "process_data"
        /\ prev' = f
        /\ df' = EmptyFrame
        /\ raised' = FALSE
        /\ args' = NoCall
        /\ UNCHANGED <<filename, content, result>>

\* A source joins the list as it is.
Attach ==
    \E f \in Sources :
        /\ CanTake(f)
        /\ dfs' = Append(dfs, f)
        /\ op' = "attach"
        /\ prev' = f
        /\ df' = EmptyFrame
        /\ raised' = FALSE
        /\ args' = NoCall
        /\ UNCHANGED <<filename, content, result>>

Merge ==
    /\ op # "merge_dataframes"
    /\ df' = merge_dataframes(dfs)
    /\ op' = "merge_dataframes"
    /\ prev' = EmptyFrame
    /\ raised' = FALSE
    /\ args' = NoCall
    /\ UNCHANGED <<filename, content, dfs, result>>

NextMerge == Upload \/ Attach \/ Merge

SpecMerge == InitMerge /\ [][NextMerge]_vars

\* The place, in the merged rows, before the first row of source i.
Offset(i) == TotalRows(SubSeq(dfs, 1, i - 1))

\* C5: merge_dataframes returns the empty DataFrame for no input, and
\* otherwise the inputs' rows, all of them, source after source and each
\* source's in their order.
C5_MergeConcatenates ==
    op = "merge_dataframes" =>
        /\ dfs = <<>> => (df.cols = <<>> /\ df.rows = <<>>)
        /\ NRows(df) = TotalRows(dfs)
        /\ \A i \in DOMAIN dfs : \A j \in DOMAIN dfs[i].rows :
              \A c \in ColSet(dfs[i]) :
                  /\ Offset(i) + j \in DOMAIN df.rows
                  /\ c \in ColSet(df)
                  /\ df.rows[Offset(i) + j][c] = dfs[i].rows[j][c]

\* Two sources were merged, the first of two rows and the second equal to
\* one of them.
C5_Witness ==
    /\ op = "merge_dataframes"
    /\ Len(dfs) = 2
    /\ NRows(dfs[1]) = 2
    /\ dfs[1].rows[1] # dfs[1].rows[2]
    /\ NRows(dfs[2]) = 1
    /\ ColSet(dfs[2]) = ColSet(dfs[1])
    /\ dfs[2].rows[1] = dfs[1].rows[1]

\* A frame process_data returns unchanged.
IsProcessed(f) == \E lenient \in BOOLEAN : Outcome(FALSE, f) \in process_data(f, lenient)

\* C4: merging processed sources gives the union of their columns, with the
\* cleaner's fill value where a source had no such column, so that no
\* numeric column holds a null.
C4_MergedHasNoNull ==
    (op = "merge_dataframes" /\ \A i \in DOMAIN dfs : IsProcessed(dfs[i])) =>
        /\ ColSet(df) = UNION {ColSet(dfs[i]) : i \in DOMAIN dfs}
        /\ \A i \in DOMAIN dfs : \A j \in DOMAIN dfs[i].rows :
              \A c \in ColSet(df) \ ColSet(dfs[i]) :
                  df.rows[Offset(i) + j][c] = FillValue(df.dtype[c])
        /\ \A c \in ColSet(df) : \A r \in DOMAIN df.rows :
              IsNumericDtype(df.dtype[c]) => ~IsNull(df.rows[r][c])

\* C4 without the part that fails: the merged columns are the union of the
\* processed sources' columns.
C4_ColumnsAreUnion ==
    (op = "merge_dataframes" /\ \A i \in DOMAIN dfs : IsProcessed(dfs[i])) =>
        ColSet(df) = UNION {ColSet(dfs[i]) : i \in DOMAIN dfs}

-----------------------------------------------------------------------------
(* load_excel_file *)

Marker == " CBM"

\* Whether text t stands in s at place i.
OccursAt(s, t, i) == i >= 1 /\ i + Len(t) - 1 <= Len(s) /\ SubSeq(s, i, i + Len(t) - 1) = t

Occurrences(s, t) == {i \in 1..Len(s) : OccursAt(s, t, i)}

Max(S) == CHOOSE x \in S : \A y \in S : y <= x

Min(S) == CHOOSE x \in S : \A y \in S : x <= y

\* os.path.basename: what follows the last "/".
basename(path) ==
    IF Occurrences(path, "/") = {} THEN path
    ELSE SubSeq(path, Max(Occurrences(path, "/")) + 1, Len(path))

\* A split that cuts at the last separator (rsplit).
SplitAtLast(s, sep) ==
    IF Occurrences(s, sep) = {} THEN s
    ELSE SubSeq(s, 1, Max(Occurrences(s, sep)) - 1)

\* s.split(sep)[0]: what precedes the first separator, all of s without one.
SplitFirst(s, sep) ==
    IF Occurrences(s, sep) = {} THEN s
    ELSE SubSeq(s, 1, Min(Occurrences(s, sep)) - 1)

vessel_name_of(name) == SplitFirst(basename(name), Marker)

\* What load_excel_file returns, or that it raised and with what message.
load_excel_file(file_content, name) ==
    IF ~file_content.decodes
    THEN [raised |-> TRUE,
          message |-> "Error loading file " \o name \o ": not a spreadsheet",
          df |-> EmptyFrame, vessel_name |-> ""]
    ELSE [raised |-> FALSE,
          message |-> "",
          df |-> SetColumn(file_content.sheet, "VESSEL_NAME", "object",
                           [i \in DOMAIN file_content.sheet.rows |-> Str(vessel_name_of(name))]),
          vessel_name |-> vessel_name_of(name)]

-----------------------------------------------------------------------------
(* Files uploaded and loaded. *)

NameParts == {"Vessel1", " CBM", " C", "BM_March.xlsx", "/"}

\* The names made of at most n parts.
RECURSIVE NamesOf(_)
NamesOf(n) ==
    IF n = 0 THEN {""}
    ELSE NamesOf(n - 1) \cup {a \o b : a \in NamesOf(n - 1), b \in NameParts}

Filenames == NamesOf(MaxParts)

UploadColumns == <<"RPM", "VESSEL_NAME">>

UploadDtypes == [c \in {"RPM", "VESSEL_NAME"} |->
    CASE c = "RPM" -> "float64" [] c = "VESSEL_NAME" -> "object"]

UploadValues == [c \in {"RPM", "VESSEL_NAME"} |->
    CASE c = "RPM" -> {Num(1)} [] c = "VESSEL_NAME" -> {Str("old")}]

Contents ==
    {NoContent} \cup
    {[decodes |-> TRUE, sheet |-> f] :
        f \in FramesOver(UploadColumns, UploadDtypes, UploadValues, MaxRows)}

InitLoad ==
    /\ filename \in Filenames
    /\ content \in Contents
    /\ df = EmptyFrame
    /\ prev = EmptyFrame
    /\ dfs = <<>>
    /\ args = NoCall
    /\ result = NoCall
    /\ raised = FALSE
    /\ op = "init"

Load ==
    LET r == load_excel_file(content, filename)
    IN  /\ op = "init"
        /\ op' = "load_excel_file"
        /\ raised' = r.raised
        /\ result' = [name |-> "load_excel_file", vessel_name |-> r.vessel_name,
                      message |-> r.message]
        /\ df' = r.df
        /\ prev' = content.sheet
        /\ args' = NoCall
        /\ UNCHANGED <<filename, content, dfs>>

NextLoad == Load

SpecLoad == InitLoad /\ [][NextLoad]_vars

\* Whether b is the base of path: its longest tail without a "/".
IsBaseOf(b, path) ==
    \E k \in 0..Len(path) :
        /\ b = SubSeq(path, k + 1, Len(path))
        /\ \A i \in 1..Len(b) : CharAt(b, i) # "/"
        /\ k > 0 => CharAt(path, k) = "/"

\* Whether v is what precedes the first marker of b, or b when it has none.
IsBeforeFirstMarker(v, b) ==
    \/ /\ \A i \in 1..Len(b) : ~OccursAt(b, Marker, i)
       /\ v = b
    \/ \E i \in 1..Len(b) :
          /\ OccursAt(b, Marker, i)
          /\ \A j \in 1..(i - 1) : ~OccursAt(b, Marker, j)
          /\ v = SubSeq(b, 1, i - 1)

LoadedName == result.vessel_name

\* C10 as stated: the vessel identifier is what precedes the first " CBM" of
\* the base filename, it is on every row, it is not empty when the filename
\* holds the marker, and it is the base filename when the marker is missing.
C10_VesselNameAsStated ==
    (op = "load_excel_file" /\ ~raised) =>
        \E k \in 0..Len(filename) :
            LET b == SubSeq(filename, k + 1, Len(filename))
            IN  /\ IsBaseOf(b, filename)
                /\ IsBeforeFirstMarker(LoadedName, b)
                /\ NRows(df) = NRows(content.sheet)
                /\ \A i \in DOMAIN df.rows : df.rows[i]["VESSEL_NAME"] = Str(LoadedName)
                /\ Occurrences(filename, Marker) # {} => LoadedName # ""
                /\ (\A i \in 1..Len(b) : ~OccursAt(b, Marker, i)) => LoadedName = b

\* C10 as amended: the vessel identifier is what precedes the first " CBM" of
\* the base filename, it is on every row, it is not empty when the base
\* filename holds the marker and does not begin with it, it is empty when
\* the base filename begins with the marker, and it is the base filename
\* when the base filename has no marker.
C10_VesselName ==
    (op = "load_excel_file" /\ ~raised) =>
        \E k \in 0..Len(filename) :
            LET b == SubSeq(filename, k + 1, Len(filename))
            IN  /\ IsBaseOf(b, filename)
                /\ IsBeforeFirstMarker(LoadedName, b)
                /\ NRows(df) = NRows(content.sheet)
                /\ \A i \in DOMAIN df.rows : df.rows[i]["VESSEL_NAME"] = Str(LoadedName)
                /\ (\E i \in 2..Len(b) : OccursAt(b, Marker, i)) /\ ~OccursAt(b, Marker, 1)
                      => LoadedName # ""
                /\ OccursAt(b, Marker, 1) => LoadedName = ""
                /\ (\A i \in 1..Len(b) : ~OccursAt(b, Marker, i)) => LoadedName = b

\* A file in a directory, its name holding the marker twice, was loaded with
\* rows to tag.
C10_Witness ==
    /\ op = "load_excel_file"
    /\ ~raised
    /\ Cardinality(Occurrences(basename(filename), Marker)) = 2
    /\ Occurrences(filename, "/") # {}
    /\ LoadedName = "Vessel1"
    /\ NRows(df) = 2

-----------------------------------------------------------------------------
(* filter_data *)

\* A filter value: a scalar (list FALSE, one item) or a list of items.
Scalar(c) == [list |-> FALSE, items |-> <<c>>]

List(cs) == [list |-> TRUE, items |-> cs]

\* Python's truth of a filter value: a list with an item, a number other
\* than 0, a string with a character.
Truthy(v) ==
    IF v.list THEN v.items # <<>>
    ELSE CASE v.items[1].k = "num" -> v.items[1].n # 0
           [] v.items[1].k = "str" -> v.items[1].s # ""
           [] OTHER -> FALSE

\* A filter that takes every value, 0 and '' and [] too, for a constraint.
IsActiveAlways(f, column, values) == HasCol(f, column)

\* column in filtered_df.columns and values
IsActive(f, column, values) == HasCol(f, column) /\ Truthy(values)

\* Series.isin(values) for a list, Series == values for a scalar.
Matches(cell, values) ==
    IF values.list THEN \E i \in DOMAIN values.items : values.items[i] = cell
    ELSE cell = values.items[1]

\* One turn of the loop: the rows of f that pass the filter on column.
ApplyFilter(f, column, values) ==
    IF IsActive(f, column, values)
    THEN [cols |-> f.cols, dtype |-> f.dtype,
          rows |-> SelectSeq(f.rows, LAMBDA row : Matches(row[column], values))]
    ELSE f

\* filters is the dict as the sequence of its items, in iteration order.
RECURSIVE filter_data(_, _)
filter_data(f, filters) ==
    IF filters = <<>> THEN f
    ELSE filter_data(ApplyFilter(f, filters[1].column, filters[1].values), Tail(filters))

-----------------------------------------------------------------------------
(* get_column_categories *)

Contains(s, t) == Occurrences(s, t) # {}

MetadataColumns ==
    <<"MP_NUMBER", "MP_NAME", "COMP_NUMBER", "COMP_NAME", "VESSEL_NAME", "DATE", "TIME",
      "TIMESTAMP">>

IsVibration(c) ==
    Contains(c, "Vib") \/ Contains(c, "Vel") \/ Contains(c, "Acc") \/ Contains(c, "Disp")

IsBearing(c) == Contains(c, "Bearing") \/ Contains(c, "Cuscinetto")

IsShaft(c) == Contains(c, "Shaft")

InSeq(x, xs) == \E i \in DOMAIN xs : xs[i] = x

get_column_categories(f) ==
    LET vibration == SelectSeq(f.cols, IsVibration)
        bearing == SelectSeq(f.cols, IsBearing)
        shaft == SelectSeq(f.cols, IsShaft)
        all_categorized == MetadataColumns \o vibration \o bearing \o shaft
    IN  [metadata |-> MetadataColumns,
         vibration |-> vibration,
         bearing |-> bearing,
         shaft |-> shaft,
         other |-> SelectSeq(f.cols, LAMBDA c : ~InSeq(c, all_categorized))]

-----------------------------------------------------------------------------
(* Aggregates of a column.  The measurements of the model are whole numbers;
   means and medians are fractions. *)

SeqToSet(xs) == {xs[i] : i \in DOMAIN xs}

RECURSIVE SortedSeq(_)
SortedSeq(S) == IF S = {} THEN <<>> ELSE <<Min(S)>> \o SortedSeq(S \ {Min(S)})

\* The values of column c in rows, nulls skipped.
ColumnValues(rows, c) ==
    LET full == SelectSeq(rows, LAMBDA r : ~IsNull(r[c]))
    IN  [i \in DOMAIN full |-> full[i][c].n]

RECURSIVE SumSeq(_)
SumSeq(xs) == IF xs = <<>> THEN 0 ELSE xs[1] + SumSeq(Tail(xs))

Remove(xs, i) == SubSeq(xs, 1, i - 1) \o SubSeq(xs, i + 1, Len(xs))

RECURSIVE SortInts(_)
SortInts(xs) ==
    IF xs = <<>> THEN <<>>
    ELSE LET i == CHOOSE k \in DOMAIN xs : \A j \in DOMAIN xs : xs[k] <= xs[j]
         IN  <<xs[i]>> \o SortInts(Remove(xs, i))

\* Series.mean(): NaN when no value is left.
MeanOf(xs) == IF xs = <<>> THEN Null ELSE Frac(SumSeq(xs), Len(xs))

MinOf(xs) == IF xs = <<>> THEN Null ELSE Num(Min(SeqToSet(xs)))

MaxOf(xs) == IF xs = <<>> THEN Null ELSE Num(Max(SeqToSet(xs)))

MedianOf(xs) ==
    LET sorted == SortInts(xs)
        n == Len(xs)
    IN  IF n = 0 THEN Null
        ELSE IF n % 2 = 1 THEN Num(sorted[(n + 1) \div 2])
        ELSE Frac(sorted[n \div 2] + sorted[n \div 2 + 1], 2)

-----------------------------------------------------------------------------
(* get_time_series_data *)

RowDay(row) == DayOf(row["TIMESTAMP"].n)

\* One entry of the result: the days as strings and the means, side by side.
Series(days, rows, column) ==
    [timestamps |-> [i \in DOMAIN days |-> DayStr(days[i])],
     values |-> [i \in DOMAIN days |->
                    MeanOf(ColumnValues(SelectSeq(rows, LAMBDA r : RowDay(r) = days[i]), column))]]

\* groupby([Grouper(key='TIMESTAMP', freq='D'), group_by]): a group for each
\* (day, value) some row has; rows without a TIMESTAMP or without a value of
\* group_by are in no group.
GroupedByDayAnd(f, column, group_by) ==
    LET rows == SelectSeq(f.rows, LAMBDA r : ~IsNull(r["TIMESTAMP"]) /\ ~IsNull(r[group_by]))
        groups == {rows[i][group_by] : i \in DOMAIN rows}
    IN  [g \in groups |->
            LET mine == SelectSeq(rows, LAMBDA r : r[group_by] = g)
            IN  Series(SortedSeq({RowDay(mine[i]) : i \in DOMAIN mine}), mine, column)]

\* groupby(Grouper(key='TIMESTAMP', freq='D')): the daily bins, one for every
\* day from the first to the last, a day without rows too.
AllDays(rows) ==
    IF rows = <<>> THEN <<>>
    ELSE LET days == {RowDay(rows[i]) : i \in DOMAIN rows}
         IN  SortedSeq(Min(days)..Max(days))

GroupedByDay(f, column) ==
    LET rows == SelectSeq(f.rows, LAMBDA r : ~IsNull(r["TIMESTAMP"]))
    IN  [g \in {Str("all")} |-> Series(AllDays(rows), rows, column)]

Returned(v) == [raised |-> FALSE, value |-> v]

Raised(e) == [raised |-> TRUE, value |-> e]

\* mean() of a column that is not numeric raises.
get_time_series_data(f, column, group_by) ==
    IF ~HasCol(f, "TIMESTAMP") \/ ~HasCol(f, column) THEN Returned(<<>>)
    ELSE IF ~IsNumericDtype(f.dtype[column]) THEN Raised("TypeError")
    ELSE IF HasCol(f, group_by) THEN Returned(GroupedByDayAnd(f, column, group_by))
    ELSE Returned(GroupedByDay(f, column))

-----------------------------------------------------------------------------
(* get_summary_stats *)

\* Series.value_counts().to_dict(): the rows of each value, nulls left out.
value_counts(f, c) ==
    [v \in {f.rows[i][c] : i \in DOMAIN f.rows} \ {Null} |->
        Cardinality({i \in DOMAIN f.rows : f.rows[i][c] = v})]

isoformat(t) == DayStr(DayOf(t)) \o "T" \o TimeStr(t % SecondsPerDay)

\* The 'min' or 'max' of date_range: None when no row has a TIMESTAMP.
IsoOrNone(c) == IF IsNull(c) THEN Null ELSE Str(isoformat(c.n))

OrZero(c) == IF IsNull(c) THEN Num(0) ELSE c

NumericColumns(f) == SelectSeq(f.cols, LAMBDA c : IsNumericDtype(f.dtype[c]))

numeric_stats(f) ==
    [c \in SeqToSet(NumericColumns(f)) \ {"COMP_NUMBER"} |->
        [min |-> OrZero(MinOf(ColumnValues(f.rows, c))),
         max |-> OrZero(MaxOf(ColumnValues(f.rows, c))),
         mean |-> OrZero(MeanOf(ColumnValues(f.rows, c))),
         median |-> OrZero(MedianOf(ColumnValues(f.rows, c)))]]

\* The counts the result holds: one key for each of the three columns present.
CountKeys == [c \in {"VESSEL_NAME", "COMP_NAME", "MP_NAME"} |->
    CASE c = "VESSEL_NAME" -> "vessel_counts"
      [] c = "COMP_NAME" -> "component_counts"
      [] c = "MP_NAME" -> "mp_name_counts"]

get_summary_stats(f) ==
    [keys |-> {CountKeys[c] : c \in ColSet(f) \cap DOMAIN CountKeys}
                 \cup (IF HasCol(f, "TIMESTAMP") THEN {"date_range"} ELSE {})
                 \cup {"numeric_stats"},
     counts |-> [c \in ColSet(f) \cap DOMAIN CountKeys |-> value_counts(f, c)],
     date_range |->
        IF HasCol(f, "TIMESTAMP")
        THEN [min |-> IsoOrNone(MinOf(ColumnValues(f.rows, "TIMESTAMP"))),
              max |-> IsoOrNone(MaxOf(ColumnValues(f.rows, "TIMESTAMP")))]
        ELSE Null,
     numeric_stats |-> numeric_stats(f)]

-----------------------------------------------------------------------------
(* get_correlation_data *)

\* The rows that hold a value in both columns.
Paired(rows, a, b) == SelectSeq(rows, LAMBDA r : ~IsNull(r[a]) /\ ~IsNull(r[b]))

Products(rows, a, b) == [i \in DOMAIN rows |-> rows[i][a].n * rows[i][b].n]

\* n * sum(ab) - sum(a) * sum(b): the covariance of a and b, scaled.
Cov(rows, a, b) ==
    Len(rows) * SumSeq(Products(rows, a, b)) - SumSeq(ColumnValues(rows, a)) * SumSeq(ColumnValues(rows, b))

\* Pearson's coefficient of a and b rounded to two places, in hundredths:
\* the q with q - 1/2 <= 100 |r| < q + 1/2, signed.  NaN without variance.
Pearson(f, a, b) ==
    LET rows == Paired(f.rows, a, b)
        cov == Cov(rows, a, b)
        spread == Cov(rows, a, a) * Cov(rows, b, b)
        q == Max({0} \cup {k \in 1..100 : (2 * k - 1) * (2 * k - 1) * spread <= 40000 * cov * cov})
    IN  IF spread = 0 THEN Null
        ELSE Frac(IF cov < 0 THEN -q ELSE q, 100)

\* df[columns] raises KeyError when a name of columns is no column.
get_correlation_data(f, columns) ==
    IF \E i \in DOMAIN columns : ~HasCol(f, columns[i]) THEN Raised("KeyError")
    ELSE LET numeric == SeqToSet(SelectSeq(columns, LAMBDA c : IsNumericDtype(f.dtype[c])))
         IN  IF numeric = {} \/ f.rows = <<>> THEN Returned(<<>>)
             ELSE Returned([a \in numeric |-> [b \in numeric |-> Pearson(f, a, b)]])

-----------------------------------------------------------------------------
(* The query functions, called on a unified dataset. *)

DatasetColumns == <<"VESSEL_NAME", "RPM", "TIMESTAMP">>

DatasetDtypes == [c \in {"VESSEL_NAME", "RPM", "TIMESTAMP"} |->
    CASE c = "VESSEL_NAME" -> "object" [] c = "RPM" -> "float64"
      [] c = "TIMESTAMP" -> "datetime64"]

\* Two vessels; a measurement missing, 0 or 1; a TIMESTAMP missing, on the
\* morning or the evening of day 1, or on day 3.
DatasetValues == [c \in {"VESSEL_NAME", "RPM", "TIMESTAMP"} |->
    CASE c = "VESSEL_NAME" -> {Str("A"), Str("B")}
      [] c = "RPM" -> {Null, Num(0), Num(1)}
      [] c = "TIMESTAMP" -> {Null, Ts(SecondsPerDay + 8 * 3600), Ts(SecondsPerDay + 20 * 3600),
                             Date(3)}]

Datasets == FramesOver(DatasetColumns, DatasetDtypes, DatasetValues, MaxQueryRows)

\* The columns a Filter Spec may name: two of the dataset, one that is not.
FilterKeys == {"VESSEL_NAME", "RPM", "MP_NAME"}

FilterValues ==
    {Scalar(Str("A")), Scalar(Num(0)), List(<<>>), List(<<Str("B"), Num(1)>>),
     List(<<Num(0), Null>>)}

\* The Filter Specs of at most n keys, in every iteration order.
RECURSIVE FiltersOf(_)
FiltersOf(n) ==
    IF n = 0 THEN {<<>>}
    ELSE FiltersOf(n - 1) \cup
         {Append(fs, [column |-> k, values |-> v]) :
             <<fs, k, v>> \in {t \in FiltersOf(n - 1) \X FilterKeys \X FilterValues :
                                 \A i \in DOMAIN t[1] : t[1][i].column # t[2]}}

FilterSpecs == FiltersOf(MaxFilterKeys)

\* The target columns asked for: numeric, textual, and one that is not there.
TargetColumns == {"RPM", "VESSEL_NAME", "TEMP"}

GroupColumns == {"VESSEL_NAME", "FLEET"}

CandidateLists == {<<>>, <<"RPM">>, <<"VESSEL_NAME">>, <<"RPM", "VESSEL_NAME">>, <<"RPM", "TEMP">>}

InitQuery ==
    /\ df \in Datasets
    /\ prev = EmptyFrame
    /\ filename = ""
    /\ content = NoContent
    /\ dfs = <<>>
    /\ args = NoCall
    /\ result = NoCall
    /\ raised = FALSE
    /\ op = "init"

\* The query functions read the dataset and leave it as it is, so that a call
\* after another finds what the first found: each is made on a fresh dataset.
Summary ==
    /\ op = "init"
    /\ op' = "get_summary_stats"
    /\ args' = NoCall
    /\ result' = get_summary_stats(df)
    /\ raised' = FALSE
    /\ UNCHANGED <<filename, content, df, prev, dfs>>

Filter ==
    \E filters \in FilterSpecs :
        /\ op = "init"
        /\ op' = "filter_data"
        /\ args' = [name |-> "filter_data", filters |-> filters]
        /\ result' = filter_data(df, filters)
        /\ raised' = FALSE
        /\ UNCHANGED <<filename, content, df, prev, dfs>>

TimeSeries ==
    \E column \in TargetColumns : \E group_by \in GroupColumns :
        /\ op = "init"
        /\ op' = "get_time_series_data"
        /\ args' = [name |-> "get_time_series_data", column |-> column, group_by |-> group_by]
        /\ result' = get_time_series_data(df, column, group_by).value
        /\ raised' = get_time_series_data(df, column, group_by).raised
        /\ UNCHANGED <<filename, content, df, prev, dfs>>

Correlation ==
    \E columns \in CandidateLists :
        /\ op = "init"
        /\ op' = "get_correlation_data"
        /\ args' = [name |-> "get_correlation_data", columns |-> columns]
        /\ result' = get_correlation_data(df, columns).value
        /\ raised' = get_correlation_data(df, columns).raised
        /\ UNCHANGED <<filename, content, df, prev, dfs>>

Categories ==
    /\ op = "init"
    /\ op' = "get_column_categories"
    /\ args' = NoCall
    /\ result' = get_column_categories(df)
    /\ raised' = FALSE
    /\ UNCHANGED <<filename, content, df, prev, dfs>>

NextQuery == Summary \/ Filter \/ TimeSeries \/ Correlation \/ Categories

SpecQuery == InitQuery /\ [][NextQuery]_vars

-----------------------------------------------------------------------------
(* Filtering alone, on datasets without TIMESTAMP. *)

InitFilter ==
    /\ df \in FramesOver(<<"VESSEL_NAME", "RPM">>, DatasetDtypes, DatasetValues, MaxQueryRows)
    /\ prev = EmptyFrame
    /\ filename = ""
    /\ content = NoContent
    /\ dfs = <<>>
    /\ args = NoCall
    /\ result = NoCall
    /\ raised = FALSE
    /\ op = "init"

NextFilter == Filter

SpecFilter == InitFilter /\ [][NextFilter]_vars

-----------------------------------------------------------------------------
(* Categorizing alone, on datasets of many column names. *)

MeasurementColumns ==
    <<"VESSEL_NAME", "DATE", "RPM", "Bearing Vib", "Shaft Speed", "Vel X", "Cuscinetto Acc",
      "bearing temp">>

InitCategories ==
    /\ df \in {[cols |-> Pick(MeasurementColumns, cs),
                dtype |-> [c \in cs |-> "float64"],
                rows |-> <<>>] : cs \in SUBSET SeqToSet(MeasurementColumns)}
    /\ prev = EmptyFrame
    /\ filename = ""
    /\ content = NoContent
    /\ dfs = <<>>
    /\ args = NoCall
    /\ result = NoCall
    /\ raised = FALSE
    /\ op = "init"

NextCategories == Categories

SpecCategories == InitCategories /\ [][NextCategories]_vars

-----------------------------------------------------------------------------
(* Properties of the query functions. *)

Buckets == {"metadata", "vibration", "bearing", "shaft", "other"}

\* The places of the category map that list column c.
Listings(c) == {<<b, i>> \in Buckets \X (1..Len(MetadataColumns \o df.cols)) :
                   i \in DOMAIN result[b] /\ result[b][i] = c}

\* C1: get_column_categories partitions the columns: each column of the
\* dataset is listed once, in one bucket, and no bucket lists a name that is
\* no column of the dataset.
C1_CategoriesPartition ==
    op = "get_column_categories" =>
        /\ \A c \in ColSet(df) : Cardinality(Listings(c)) = 1
        /\ \A b \in Buckets : \A i \in DOMAIN result[b] : result[b][i] \in ColSet(df)

\* C1 without the parts that fail: no column is omitted, and 'other' lists
\* the columns no other bucket lists.
C1_NoColumnOmitted ==
    op = "get_column_categories" =>
        /\ \A c \in ColSet(df) : Listings(c) # {}
        /\ \A c \in ColSet(df) :
              InSeq(c, result["other"]) <=> \A b \in Buckets \ {"other"} : ~InSeq(c, result[b])

\* The columns a query call was asked about or expects.
AskedColumns ==
    CASE op = "get_summary_stats" -> {"VESSEL_NAME", "COMP_NAME", "MP_NAME", "TIMESTAMP"}
      [] op = "filter_data" -> {args.filters[i].column : i \in DOMAIN args.filters}
      [] op = "get_time_series_data" -> {"TIMESTAMP", args.column, args.group_by}
      [] op = "get_correlation_data" -> SeqToSet(args.columns)
      [] op = "get_column_categories" -> SeqToSet(MetadataColumns)
      [] OTHER -> {}

QueryCalls ==
    {"get_summary_stats", "filter_data", "get_time_series_data", "get_correlation_data",
     "get_column_categories"}

\* A call of get_time_series_data on a target that is there and is text.
TextTarget ==
    op = "get_time_series_data" /\ HasCol(df, args.column)
        /\ ~IsNumericDtype(df.dtype[args.column])

\* C2: a query function asked about a column the dataset does not have
\* returns, and does not raise.
C2_AbsentColumnNeverRaises ==
    (op \in QueryCalls /\ AskedColumns \ ColSet(df) # {} /\ ~TextTarget) => ~raised

\* C2 without the part that fails: the four functions other than
\* get_correlation_data return when a column is absent.
C2_OthersNeverRaise ==
    (op \in QueryCalls \ {"get_correlation_data"} /\ AskedColumns \ ColSet(df) # {}
        /\ ~TextTarget) => ~raised

\* The rows of the dataset that hold a TIMESTAMP and belong to the entry g.
EntryRows(g) ==
    SelectSeq(df.rows, LAMBDA r : /\ ~IsNull(r["TIMESTAMP"])
                                  /\ HasCol(df, args.group_by) => r[args.group_by] = g)

\* The day a day string names.
DayNamed(text) == TwoDigits(text, 9)

\* Whether v is the arithmetic mean of xs (NaN for no values).
IsMean(v, xs) ==
    IF xs = <<>> THEN v = Null
    ELSE v.k = "num" /\ v.n * Len(xs) = v.d * SumSeq(xs)

\* Whether e is the entry the claim describes for the rows: lists of one
\* length, the days ascending and exactly the days of the rows, each value
\* the mean of the target over the rows of its day.
IsEntryOf(e, rows) ==
    /\ Len(e.timestamps) = Len(e.values)
    /\ \A i, j \in DOMAIN e.timestamps :
          i < j => DayNamed(e.timestamps[i]) < DayNamed(e.timestamps[j])
    /\ {DayNamed(e.timestamps[i]) : i \in DOMAIN e.timestamps}
          = {RowDay(rows[i]) : i \in DOMAIN rows}
    /\ \A i \in DOMAIN e.timestamps :
          /\ e.timestamps[i] = DayStr(DayNamed(e.timestamps[i]))
          /\ IsMean(e.values[i],
                    ColumnValues(SelectSeq(rows, LAMBDA r : RowDay(r) = DayNamed(e.timestamps[i])),
                                 args.column))

\* The call was given TIMESTAMP and a numeric target.
SeriesAsked ==
    /\ op = "get_time_series_data"
    /\ HasCol(df, "TIMESTAMP")
    /\ HasCol(df, args.column)
    /\ IsNumericDtype(df.dtype[args.column])

\* C8: get_time_series_data returns nothing without TIMESTAMP or the target;
\* with them, an entry for each value of the grouping column, or the entry
\* 'all' without that column, each entry as the claim describes.
C8_TimeSeries ==
    /\ (op = "get_time_series_data" /\ ~(HasCol(df, "TIMESTAMP") /\ HasCol(df, args.column)))
          => (~raised /\ result = <<>>)
    /\ SeriesAsked =>
          /\ ~raised
          /\ DOMAIN result =
                IF HasCol(df, args.group_by)
                THEN {df.rows[i][args.group_by] : i \in DOMAIN df.rows}
                ELSE {Str("all")}
          /\ \A g \in DOMAIN result : IsEntryOf(result[g], EntryRows(g))

\* C8 without the parts that fail: nothing without TIMESTAMP or the target;
\* with the grouping column, an entry as described for each value that has a
\* row with a TIMESTAMP; without it, the entry 'all', whose days are ascending
\* and hold every day of a row, with the mean as that day's value.
C8_GroupedSeries ==
    /\ (op = "get_time_series_data" /\ ~(HasCol(df, "TIMESTAMP") /\ HasCol(df, args.column)))
          => (~raised /\ result = <<>>)
    /\ (SeriesAsked /\ HasCol(df, args.group_by)) =>
          /\ DOMAIN result =
                {df.rows[i][args.group_by] : i \in {j \in DOMAIN df.rows :
                                                      ~IsNull(df.rows[j]["TIMESTAMP"])}}
          /\ \A g \in DOMAIN result : IsEntryOf(result[g], EntryRows(g))
    /\ (SeriesAsked /\ ~HasCol(df, args.group_by)) =>
          /\ DOMAIN result = {Str("all")}
          /\ LET e == result[Str("all")]
                 rows == EntryRows(Str("all"))
             IN  /\ Len(e.timestamps) = Len(e.values)
                 /\ \A i, j \in DOMAIN e.timestamps :
                       i < j => DayNamed(e.timestamps[i]) < DayNamed(e.timestamps[j])
                 /\ {RowDay(rows[i]) : i \in DOMAIN rows}
                       \subseteq {DayNamed(e.timestamps[i]) : i \in DOMAIN e.timestamps}
                 /\ \A i \in DOMAIN e.timestamps :
                       IsMean(e.values[i],
                              ColumnValues(SelectSeq(rows, LAMBDA r :
                                               RowDay(r) = DayNamed(e.timestamps[i])),
                                           args.column))

\* Whether a filter value constrains: a list that is not empty, a scalar that
\* is neither 0 nor ''.
Constrains(v) ==
    \/ v.list /\ Len(v.items) > 0
    \/ ~v.list /\ v.items[1] \notin {Num(0), Str(""), Null}

\* Whether a row satisfies the constraint of column on values.
Satisfies(row, column, v) ==
    \/ ~HasCol(df, column)
    \/ ~Constrains(v)
    \/ v.list /\ row[column] \in SeqToSet(v.items)
    \/ ~v.list /\ row[column] = v.items[1]

\* The Filter Spec with its keys in the order p.
Reordered(filters, p) == [i \in DOMAIN filters |-> filters[p[i]]]

\* C6: filter_data returns the rows, in their order, that satisfy every
\* active constraint, whatever the iteration order of the Filter Spec.
C6_FilterConjunctive ==
    op = "filter_data" =>
        /\ result.cols = df.cols
        /\ result.rows =
              SelectSeq(df.rows, LAMBDA row :
                  \A i \in DOMAIN args.filters :
                      Satisfies(row, args.filters[i].column, args.filters[i].values))
        /\ \A p \in Permutations(DOMAIN args.filters) :
              filter_data(df, Reordered(args.filters, p)) = result

\* A Filter Spec of an equality, a membership and a value that is falsy has
\* kept a row and removed a row.
C6_Witness ==
    /\ op = "filter_data"
    /\ \E i, j \in DOMAIN args.filters :
          /\ i # j
          /\ HasCol(df, args.filters[i].column) /\ HasCol(df, args.filters[j].column)
          /\ args.filters[i].values = Scalar(Num(0))
          /\ Constrains(args.filters[j].values)
    /\ result.rows # <<>>
    /\ result.rows # df.rows
    /\ \E i \in DOMAIN result.rows : result.rows[i]["RPM"] # Num(0)

====
